---------------------------- MODULE Spec2Model ----------------------------
(***************************************************************************)
(* A model of bin2svf.c: the conversion of a flash image to a sequence of  *)
(* SVF commands (erase, program, verify) for a JTAG-driven SPI flash.      *)
(*                                                                         *)
(* Values.  A byte is a number 0..255.  A uint32_t is a record             *)
(* [hi, lo] of two 16-bit halves (TLC's integers are 32-bit signed, so a   *)
(* uint32_t does not fit one of them).  A size_t is a natural number.  A   *)
(* uint8_t* is a record [null, img, off]: the image it points into and the *)
(* offset of the byte it points at.  An image is a memory of len bytes,    *)
(* held sparsely: every byte is `fill' except at the offsets of `marks'.   *)
(*                                                                         *)
(* Output.  stdout is the variable out, a sequence with one entry per      *)
(* printed command: [kind, line, num, addr, data] where kind names the     *)
(* function that printed it, line is the printf format of the command's    *)
(* line, num the number the format prints (wait's ms), addr the page       *)
(* address printed in the comment line of a page command and data the      *)
(* bytes hexdump prints.                                                   *)
(***************************************************************************)
EXTENDS Naturals, Integers, Sequences, FiniteSets, TLC

\* ---------------------------------------------------------------- bounds

\* The images of Spec hold at most MaxPages whole pages.
MaxPages == 2

\* A value has a bit reversal applied to it at most MaxApplications times.
MaxApplications == 2

\* ------------------------------------------------------ program constants

MODE_ERASE == 1
MODE_WRITE == 2
MODE_VERIFY == 4

PAGE_OP_PROGRAM_TDI == 64
PAGE_OP_VERIFY_TDI == 192
PAGE_OP_VERIFY_TDO == 0
PAGE_OP_VERIFY_MASK == 0

SIZE_4MB == 0
SIZE_8MB == 1
SIZE_16MB == 2

\* sizeof(page_pattern.data), and the 256 of the loops over it
PAGE_SIZE == 256

\* the base address main passes to generate_svf
MAIN_ADDR == 8388608

\* main's buffer: size_t left = 32 * 1024 * 1024
MAIN_LEFT == 33554432

\* ---------------------------------------------------- machine arithmetic

\* 2^16: a uint32_t is two halves below it
U16 == 2 ^ 16

RECURSIVE BitOr(_, _)
\* a | b on natural numbers
BitOr(a, b) ==
    IF a = 0 THEN b
    ELSE IF b = 0 THEN a
    ELSE (IF a % 2 = 1 \/ b % 2 = 1 THEN 1 ELSE 0) + 2 * BitOr(a \div 2, b \div 2)

\* the uint32_t of a natural number below 2^31
ToU32(n) == [hi |-> (n \div U16) % U16, lo |-> n % U16]

ZERO32 == [hi |-> 0, lo |-> 0]

\* a | b on uint32_t
Or32(a, b) == [hi |-> BitOr(a.hi, b.hi), lo |-> BitOr(a.lo, b.lo)]

\* (v >> i) & 1 on uint32_t, 0 <= i < 32
Bit32(v, i) == IF i < 16 THEN (v.lo \div (2 ^ i)) % 2 ELSE (v.hi \div (2 ^ (i - 16))) % 2

\* b << j on uint32_t for a one-bit b, 0 <= j < 32
Shl32(b, j) ==
    IF j < 16 THEN [hi |-> 0, lo |-> b * (2 ^ j)] ELSE [hi |-> b * (2 ^ (j - 16)), lo |-> 0]

\* Add32 that leaves the address where it is
Add32Stuck(a, n) == a

\* a + n on uint32_t (wraps at 2^32), n a size_t below 2^16
Add32(a, n) ==
    LET s == a.lo + n
    IN  [hi |-> (a.hi + s \div U16) % U16, lo |-> s % U16]

\* the four bytes of a uint32_t, most significant first
BytesBE(v) == <<v.hi \div 256, v.hi % 256, v.lo \div 256, v.lo % 256>>

\* htonl on a little-endian host: the bytes of v swapped end for end
htonl(v) ==
    LET b == BytesBE(v)
    IN  [hi |-> b[4] * 256 + b[3], lo |-> b[2] * 256 + b[1]]

\* the bytes of a uint32_t as a little-endian host stores them
MemBytes(v) == <<v.lo % 256, v.lo \div 256, v.hi % 256, v.hi \div 256>>

\* ------------------------------------------------------------ bit reversal

\* A loop res |= x_i is modelled by the | of its x_i, its index range run as
\* two halves.

RECURSIVE Rev8Loop(_, _, _)
\* for (i = lo; i < hi; i++) res |= ((v >> i) & 1) << (7 - i);  from res = 0
Rev8Loop(v, lo, hi) ==
    IF lo >= hi THEN 0
    ELSE IF hi - lo = 1 THEN (((v \div (2 ^ lo)) % 2) * (2 ^ (7 - lo))) % 256
    ELSE LET mid == lo + (hi - lo) \div 2
         IN  BitOr(Rev8Loop(v, lo, mid), Rev8Loop(v, mid, hi))

\* reverse_bits_8 of every byte (the loop, evaluated once per byte value)
Rev8Table == [v \in 0 .. 255 |-> Rev8Loop(v, 0, 8)]

\* reverse_bits_8 with a loop that stops one bit early
reverse_bits_8_short(v) == Rev8Loop(v, 0, 7)

reverse_bits_8(v) == Rev8Table[v]

RECURSIVE Rev32Loop(_, _, _)
\* for (i = lo; i < hi; i++) res |= ((v >> i) & 1) << (31 - i);  from res = 0
Rev32Loop(v, lo, hi) ==
    IF lo >= hi THEN ZERO32
    ELSE IF hi - lo = 1 THEN Shl32(Bit32(v, lo), 31 - lo)
    ELSE LET mid == lo + (hi - lo) \div 2
         IN  Or32(Rev32Loop(v, lo, mid), Rev32Loop(v, mid, hi))

reverse_bits_32(v) == Rev32Loop(v, 0, 32)

\* ------------------------------------------------------------------ memory

\* the null pointer
NULL == [null |-> TRUE, img |-> [len |-> 0, fill |-> 0, marks |-> <<>>], off |-> 0]

\* a pointer to offset off of image img
Ptr(img, off) == [null |-> FALSE, img |-> img, off |-> off]

\* the byte at offset o of an image
ByteAt(img, o) == IF o \in DOMAIN img.marks THEN img.marks[o] ELSE img.fill

\* buf[i]
Deref(buf, i) == ByteAt(buf.img, buf.off + i)

\* ------------------------------------------------------ page pattern encoder

\* A loop over a page is modelled by the writes it makes: the function from
\* each position it writes, 255 - i for lo <= i < hi, to the byte it writes
\* there (no position is written twice by one loop).

\* FillData writing data[i] instead of data[255-i]
FillDataForward(buf, lo, hi) == [j \in lo .. hi - 1 |-> reverse_bits_8(Deref(buf, j))]

\* for (i = lo; i < hi; i++) pattern->data[255-i] = reverse_bits_8(buf[i]);
FillData(buf, lo, hi) ==
    [j \in {255 - i : i \in lo .. hi - 1} |-> reverse_bits_8(Deref(buf, 255 - j))]

\* for (i = lo; i < hi; i++) pattern->data[255-i] = 0xff;
PadData(lo, hi) == [j \in {255 - i : i \in lo .. hi - 1} |-> 255]

\* the padding loop from each len to 256 (the loop, evaluated once per len)
PadTable == [n \in 0 .. PAGE_SIZE |-> PadData(n, PAGE_SIZE)]

\* struct page_pattern before it is written: the callers' uninitialized local
\* (every byte of it is written by create_page_pattern before it is read)
BlankPattern == [data |-> [j \in 0 .. PAGE_SIZE - 1 |-> 0], addr_and_op |-> ZERO32]

\* create_page_pattern without the test of op: the address goes into the field
\* of every pattern
create_page_pattern_keeps_addr(buf, len0, page_addr, op) ==
    LET len == IF buf.null THEN 0 ELSE len0
        data == PadTable[len] @@ FillData(buf, 0, len) @@ BlankPattern.data
        addr == htonl(reverse_bits_32(page_addr))
    IN  [rc |-> 0,
         pattern |-> [data |-> data, addr_and_op |-> Or32(addr, htonl(ToU32(op)))]]

\* create_page_pattern: [rc, pattern], the return code and *pattern
create_page_pattern(buf, len0, page_addr, op) ==
    LET len == IF buf.null THEN 0 ELSE len0
        data == PadTable[len] @@ FillData(buf, 0, len) @@ BlankPattern.data
        addr == IF op = PAGE_OP_VERIFY_TDO \/ op = PAGE_OP_VERIFY_MASK
                THEN ZERO32
                ELSE htonl(reverse_bits_32(page_addr))
    IN  [rc |-> 0,
         pattern |-> [data |-> data, addr_and_op |-> Or32(addr, htonl(ToU32(op)))]]

\* hexdump((uint8_t *)&pattern, sizeof(pattern), ...): the 260 bytes of the
\* struct in storage order, each printed as two hex digits
hexdump(pattern) ==
    [j \in 1 .. PAGE_SIZE |-> pattern.data[j - 1]] \o MemBytes(pattern.addr_and_op)


\* --------------------------------------------------------- command emitter

\* one printed command
Cmd(kind, line, num, addr, data) ==
    [kind |-> kind, line |-> line, num |-> num, addr |-> addr, data |-> data]

\* trst with its two texts exchanged
trst_exchanged(on) == Cmd("trst", IF on # 0 THEN "TRST OFF;" ELSE "TRST ON;", 0, ZERO32, <<>>)

trst(on) == Cmd("trst", IF on # 0 THEN "TRST ON;" ELSE "TRST OFF;", 0, ZERO32, <<>>)

set_frequency == Cmd("set_frequency", "FREQUENCY 5.00e+006 HZ;", 0, ZERO32, <<>>)

write_enable == Cmd("write_enable", "SDR 8 TDI(60);", 0, ZERO32, <<>>)

write_disable == Cmd("write_disable", "SDR 8 TDI(20);", 0, ZERO32, <<>>)

\* num is ms; the line prints (float)ms/1000
wait(ms) == Cmd("wait", "RUNTEST IDLE %G SEC ENDSTATE IDLE;", ms, ZERO32, <<>>)

clear_software_protect == Cmd("clear_software_protect", "SDR 16 TDI(0080);", 0, ZERO32, <<>>)

check_no_software_protect ==
    Cmd("check_no_software_protect", "SDR 16 TDI(ffa0) TDO(c6ff) MASK(3900);", 0, ZERO32, <<>>)

check_status == Cmd("check_status", "SDR 16 TDI(ffa0) TDO(0000) MASK(8000);", 0, ZERO32, <<>>)

bulk_erase == Cmd("bulk_erase", "SDR 8 TDI(e3);", 0, ZERO32, <<>>)

\* erase_time with a default case that returns the longest time instead of
\* exiting
erase_time_lenient(size) ==
    CASE size = SIZE_4MB -> [exit |-> FALSE, ms |-> 80000, lines |-> <<>>]
      [] size = SIZE_8MB -> [exit |-> FALSE, ms |-> 160000, lines |-> <<>>]
      [] OTHER -> [exit |-> FALSE, ms |-> 250000, lines |-> <<>>]

\* erase_time: [exit, ms, lines]; exit is TRUE when the function calls exit(1)
\* after printing its message, instead of returning ms
erase_time(size) ==
    CASE size = SIZE_4MB -> [exit |-> FALSE, ms |-> 80000, lines |-> <<>>]
      [] size = SIZE_8MB -> [exit |-> FALSE, ms |-> 160000, lines |-> <<>>]
      [] size = SIZE_16MB -> [exit |-> FALSE, ms |-> 250000, lines |-> <<>>]
      [] OTHER -> [exit |-> TRUE, ms |-> 0,
                   lines |-> <<Cmd("erase_time", "Unsupported chip size", 0, ZERO32, <<>>)>>]

\* ----------------------------------------------------- page operation writer

\* send_page_program that disables writing only after its wait
send_page_program_late_disable(buf, len, addr) ==
    LET r == create_page_pattern(buf, len, addr, PAGE_OP_PROGRAM_TDI)
    IN  IF r.rc < 0
        THEN [rc |-> r.rc, lines |-> <<>>]
        ELSE [rc |-> 0,
              lines |-> <<write_enable,
                          Cmd("send_page_program", "SDR 2080 TDI (%s);", 0, addr,
                              hexdump(r.pattern)),
                          wait(2),
                          write_disable>>]

\* send_page_program: [rc, lines], the return code and what it printed
send_page_program(buf, len, addr) ==
    LET r == create_page_pattern(buf, len, addr, PAGE_OP_PROGRAM_TDI)
    IN  IF r.rc < 0
        THEN [rc |-> r.rc, lines |-> <<>>]
        ELSE [rc |-> 0,
              lines |-> <<write_enable,
                          Cmd("send_page_program", "SDR 2080 TDI (%s);", 0, addr,
                              hexdump(r.pattern)),
                          write_disable,
                          wait(2)>>]

\* send_page_verify that builds its TDI pattern from the page data
send_page_verify_data_in_tdi(buf, len, addr) ==
    LET r1 == create_page_pattern(buf, len, addr, PAGE_OP_VERIFY_TDI)
        l1 == <<Cmd("send_page_verify", "SDR 2080 TDI (%s)", 0, addr, hexdump(r1.pattern))>>
        r2 == create_page_pattern(buf, len, addr, PAGE_OP_VERIFY_TDO)
        l2 == <<Cmd("send_page_verify", "TDO (%s)", 0, addr, hexdump(r2.pattern))>>
        r3 == create_page_pattern(NULL, 0, addr, PAGE_OP_VERIFY_MASK)
        l3 == <<Cmd("send_page_verify", "MASK (%s);", 0, addr, hexdump(r3.pattern))>>
    IN  IF r1.rc < 0 THEN [rc |-> r1.rc, lines |-> <<>>]
        ELSE IF r2.rc < 0 THEN [rc |-> r2.rc, lines |-> l1]
        ELSE IF r3.rc < 0 THEN [rc |-> r3.rc, lines |-> l1 \o l2]
        ELSE [rc |-> 0, lines |-> l1 \o l2 \o l3]

\* send_page_verify: [rc, lines], the return code and what it printed
send_page_verify(buf, len, addr) ==
    LET r1 == create_page_pattern(NULL, 0, addr, PAGE_OP_VERIFY_TDI)
        l1 == <<Cmd("send_page_verify", "SDR 2080 TDI (%s)", 0, addr, hexdump(r1.pattern))>>
        r2 == create_page_pattern(buf, len, addr, PAGE_OP_VERIFY_TDO)
        l2 == <<Cmd("send_page_verify", "TDO (%s)", 0, addr, hexdump(r2.pattern))>>
        r3 == create_page_pattern(NULL, 0, addr, PAGE_OP_VERIFY_MASK)
        l3 == <<Cmd("send_page_verify", "MASK (%s);", 0, addr, hexdump(r3.pattern))>>
    IN  IF r1.rc < 0 THEN [rc |-> r1.rc, lines |-> <<>>]
        ELSE IF r2.rc < 0 THEN [rc |-> r2.rc, lines |-> l1]
        ELSE IF r3.rc < 0 THEN [rc |-> r3.rc, lines |-> l1 \o l2]
        ELSE [rc |-> 0, lines |-> l1 \o l2 \o l3]

\* ------------------------------------------------------------------- state

VARIABLES
    image,      \* the input: what main read, the buffer generate_svf is given
    chip_size,  \* static const int chip_size
    base,       \* generate_svf's addr argument as passed (addr itself advances)
    mode,       \* generate_svf's mode
    buf,        \* generate_svf's buf, as an offset into image
    len,        \* generate_svf's len: the bytes left
    addr,       \* generate_svf's addr: the address of the next page
    blen,       \* generate_svf's local blen
    all_ones,   \* generate_svf's local all_ones
    written,    \* generate_svf's local written
    rc,         \* generate_svf's local rc: [init, val], init FALSE until it is assigned
    iter,       \* the iterations of the page loop completed so far
    out,        \* stdout
    pc,         \* where the program is
    ret,        \* what generate_svf returned, once pc is "returned"
    status,     \* the process's exit status, once pc is "exited"
    arg,        \* the arguments of a direct call of create_page_pattern
    pattern,    \* the struct page_pattern that call wrote
    rev         \* a direct call of reverse_bits_8 or reverse_bits_32: [width, v, res, n]

vars ==
    <<image, chip_size, base, mode, buf, len, addr, blen, all_ones, written, rc, iter, out,
      pc, ret, status, arg, pattern, rev>>

\* ------------------------------------------------------------------ inputs

\* a & f # 0 for a one-bit flag f
HasFlag(a, f) == (a \div f) % 2 = 1

\* what reading an uninitialized int may give
Garbage == {-1, 0, 1}

\* an int that was assigned v
Assigned(v) == [init |-> TRUE, val |-> v]

\* an int declared without an initializer
Unassigned == [init |-> FALSE, val |-> 0]

\* the offsets of an image of length L that may hold a byte unlike the rest:
\* the first and last byte of a page, and the last byte of the image
MarkOffsets(L) ==
    {o \in 0 .. L - 1 : o % PAGE_SIZE = 0 \/ o % PAGE_SIZE = PAGE_SIZE - 1 \/ o = L - 1}

\* the images of length L: filled with one byte, with at most one byte unlike it
Images(L) ==
    {[len |-> L, fill |-> f, marks |-> <<>>] : f \in {255, 1}}
    \cup {[len |-> L, fill |-> f, marks |-> [x \in {o} |-> v]] :
            f \in {255, 1}, o \in MarkOffsets(L), v \in {255, 18}}

\* lengths up to MaxPages pages, at and next to a page boundary
Lens ==
    {L \in 0 .. MaxPages * PAGE_SIZE :
        L % PAGE_SIZE = 0 \/ L % PAGE_SIZE = 1 \/ L % PAGE_SIZE = PAGE_SIZE - 1}

\* page addresses: multiples of 256 below 16 MiB
Bases == {0, MAIN_ADDR}

\* no direct call of create_page_pattern is under way
NoPatternCall ==
    /\ arg = [buf |-> NULL, len |-> 0, page_addr |-> ZERO32, op |-> 0]
    /\ pattern = [data |-> <<>>, addr_and_op |-> ZERO32]

\* no direct call of reverse_bits_8 or reverse_bits_32 is under way
NoReverseCall == rev = [width |-> 0, v |-> 0, res |-> 0, n |-> 0]

\* generate_svf is entered with (image, L, a, m)
Enter(img, a, m) ==
    /\ image = img
    /\ base = a
    /\ mode = m
    /\ buf = 0
    /\ len = img.len
    /\ addr = a
    /\ blen = 0
    /\ all_ones = 0
    /\ written = 0
    /\ rc = Unassigned
    /\ iter = 0
    /\ out = <<>>
    /\ pc = "entry"
    /\ ret = 0
    /\ status = 0

\* generate_svf called on every image, base address and mode, for each
\* supported chip size
Init ==
    /\ chip_size \in {SIZE_4MB, SIZE_8MB, SIZE_16MB}
    /\ \E L \in Lens : \E img \in Images(L) : \E a \in Bases : \E m \in 0 .. 7 :
          Enter(img, ToU32(a), m)
    /\ NoPatternCall
    /\ NoReverseCall

\* ------------------------------------------------------------ generate_svf

\* EraseWanted testing the wrong flag
EraseWantedOnWrite(m) == HasFlag(m, MODE_WRITE)

\* if (mode & MODE_ERASE)
EraseWanted(m) == HasFlag(m, MODE_ERASE)

\* lines 254-269: the reset line, the frequency, the unlock and its check, and
\* with MODE_ERASE the bulk erase.  erase_time is evaluated before wait prints:
\* for an unsupported chip size it prints its message and exits the process.
generate_svf_prologue ==
    /\ pc = "entry"
    /\ LET head == <<trst(0), set_frequency, write_enable, clear_software_protect,
                     write_disable, wait(100), check_no_software_protect>>
           et == erase_time(chip_size)
       IN  IF EraseWanted(mode)
           THEN IF et.exit
                THEN /\ out' = out \o head \o <<write_enable, bulk_erase, write_disable>>
                                   \o et.lines
                     /\ pc' = "exited"
                     /\ status' = 1
                ELSE /\ out' = out \o head \o <<write_enable, bulk_erase, write_disable,
                                                 wait(et.ms), check_status>>
                     /\ pc' = "loop"
                     /\ status' = status
           ELSE /\ out' = out \o head
                /\ pc' = "loop"
                /\ status' = status
    /\ UNCHANGED <<image, chip_size, base, mode, buf, len, addr, blen, all_ones, written, rc,
                   iter, ret, arg, pattern, rev>>

\* PageLength one byte short of a whole page
PageLengthShort(n) == IF n < PAGE_SIZE THEN n ELSE PAGE_SIZE - 1

\* blen = len < 256 ? len : 256;
PageLength(n) == IF n < PAGE_SIZE THEN n ELSE PAGE_SIZE

\* all_ones = 1; for (i = 0; i < n; i++) if (buf[i] != 0xFF) { all_ones = 0; break; }
ScanAllOnes(b, n) == IF \E i \in 0 .. n - 1 : Deref(b, i) # 255 THEN 0 ELSE 1

\* ProgramWanted without the skip of an erased page: every page is programmed
\* under MODE_WRITE
ProgramWantedAlways(m, ones) == HasFlag(m, MODE_WRITE)

\* if (!(mode & MODE_ERASE) || !all_ones), under if (mode & MODE_WRITE)
ProgramWanted(m, ones) == HasFlag(m, MODE_WRITE) /\ (~HasFlag(m, MODE_ERASE) \/ ones = 0)

\* VerifyWanted without the verify after a write: only MODE_VERIFY verifies
VerifyWantedOnlyAsked(m, w) == HasFlag(m, MODE_VERIFY)

\* if ((mode & MODE_VERIFY) || ((mode & MODE_WRITE) && written))
VerifyWanted(m, w) == HasFlag(m, MODE_VERIFY) \/ (HasFlag(m, MODE_WRITE) /\ w # 0)

\* lines 271-305: one iteration of the page loop, to its while (len) or to its
\* goto out
generate_svf_page ==
    /\ pc = "loop"
    /\ LET b == PageLength(len)
           p == Ptr(image, buf)
           ones == ScanAllOnes(p, b)
           doProg == ProgramWanted(mode, ones)
           prog == IF doProg THEN send_page_program(p, b, addr) ELSE [rc |-> 0, lines |-> <<>>]
           progFailed == doProg /\ prog.rc < 0
           w == IF doProg /\ ~progFailed THEN 1 ELSE 0
           doVer == ~progFailed /\ VerifyWanted(mode, w)
           ver == IF doVer THEN send_page_verify(p, b, addr) ELSE [rc |-> 0, lines |-> <<>>]
           verFailed == doVer /\ ver.rc < 0
       IN  /\ blen' = b
           /\ all_ones' = ones
           /\ written' = w
           /\ rc' = IF doVer THEN Assigned(ver.rc)
                    ELSE IF doProg THEN Assigned(prog.rc)
                    ELSE rc
           /\ out' = out \o prog.lines \o ver.lines
           /\ IF progFailed \/ verFailed
              THEN /\ pc' = "returned"
                   /\ ret' = IF progFailed THEN prog.rc ELSE ver.rc
                   /\ UNCHANGED <<len, buf, addr, iter>>
              ELSE /\ len' = len - b
                   /\ buf' = buf + b
                   /\ addr' = Add32(addr, b)
                   /\ iter' = iter + 1
                   /\ pc' = IF len - b # 0 THEN "loop" ELSE "epilogue"
                   /\ ret' = ret
    /\ UNCHANGED <<image, chip_size, base, mode, status, arg, pattern, rev>>

\* lines 307-309: trst(1); return rc;  (rc is read; when no page was programmed
\* or verified it was never assigned, and the read gives any int)
generate_svf_epilogue ==
    /\ pc = "epilogue"
    /\ out' = Append(out, trst(1))
    /\ IF rc.init THEN ret' = rc.val ELSE ret' \in Garbage
    /\ pc' = "returned"
    /\ UNCHANGED <<image, chip_size, base, mode, buf, len, addr, blen, all_ones, written, rc,
                   iter, status, arg, pattern, rev>>

Next == generate_svf_prologue \/ generate_svf_page \/ generate_svf_epilogue

Spec == Init /\ [][Next]_vars

\* --------------------------------------------- an unsupported chip size

\* a value of enum chip_size that erase_time has no case for
SIZE_UNSUPPORTED == SIZE_16MB + 1

\* as Init, with chip_size set to any value, supported or not
InitChip ==
    /\ chip_size \in {SIZE_4MB, SIZE_8MB, SIZE_16MB, SIZE_UNSUPPORTED}
    /\ \E L \in Lens : \E img \in Images(L) : \E a \in Bases : \E m \in 0 .. 7 :
          Enter(img, ToU32(a), m)
    /\ NoPatternCall
    /\ NoReverseCall

SpecChip == InitChip /\ [][Next]_vars

\* ------------------------------------------------------------------- main

\* generate_svf has not been called
NotEntered ==
    /\ base = ZERO32
    /\ mode = 0
    /\ buf = 0
    /\ len = 0
    /\ addr = ZERO32
    /\ blen = 0
    /\ all_ones = 0
    /\ written = 0
    /\ rc = Unassigned
    /\ iter = 0
    /\ out = <<>>
    /\ ret = 0
    /\ status = 0

\* the lengths of the input files: none, one byte, a page and a byte, one byte
\* more than 8 MiB, one byte more than main's buffer holds
FileLens == {0, 1, PAGE_SIZE + 1, MAIN_ADDR + 1, MAIN_LEFT + 1}

\* the input files: erased flash content (all 0xFF) with a zero last byte and,
\* of the lengths up to two pages, with a zero first byte too or as it is
Files ==
    {[len |-> L, fill |-> 255, marks |-> [x \in {L - 1} |-> 0]] : L \in FileLens \ {0}}
    \cup {[len |-> L, fill |-> 255, marks |-> <<>>] : L \in {K \in FileLens : K <= 2 * PAGE_SIZE}}
    \cup {[len |-> L, fill |-> 255, marks |-> [x \in {0, L - 1} |-> 0]] :
            L \in {K \in FileLens : 0 < K /\ K <= 2 * PAGE_SIZE}}

\* main is started on an input file
InitMain ==
    /\ image \in Files
    /\ chip_size = SIZE_16MB
    /\ pc = "main"
    /\ NotEntered
    /\ NoPatternCall
    /\ NoReverseCall

\* lines 315-367: the file is read into the buffer of 32 MiB; a longer file is
\* refused, an empty one converts to nothing, any other is handed to
\* generate_svf with address 0x800000 and mode ERASE | WRITE
main_load ==
    /\ pc = "main"
    /\ IF image.len > MAIN_LEFT
       THEN /\ out' = Append(out, Cmd("main", "%s: input file to big", 0, ZERO32, <<>>))
            /\ status' = 1
            /\ pc' = "exited"
            /\ UNCHANGED <<len, addr, base, mode>>
       ELSE IF image.len = 0
            THEN /\ status' = 0
                 /\ pc' = "exited"
                 /\ UNCHANGED <<out, len, addr, base, mode>>
            ELSE /\ len' = image.len
                 /\ addr' = ToU32(MAIN_ADDR)
                 /\ base' = ToU32(MAIN_ADDR)
                 /\ mode' = BitOr(MODE_ERASE, MODE_WRITE)
                 /\ pc' = "entry"
                 /\ UNCHANGED <<out, status>>
    /\ UNCHANGED <<image, chip_size, buf, blen, all_ones, written, rc, iter, ret, arg, pattern, rev>>

\* lines 366-369: generate_svf's return value is dropped; return 0;
main_return ==
    /\ pc = "returned"
    /\ status' = 0
    /\ pc' = "exited"
    /\ UNCHANGED <<image, chip_size, base, mode, buf, len, addr, blen, all_ones, written, rc,
                   iter, out, ret, arg, pattern, rev>>

NextMain == main_load \/ Next \/ main_return

SpecMain == InitMain /\ [][NextMain]_vars

\* ------------------------------------------- create_page_pattern on its own

\* page addresses, in and out of the range the function documents:
\* 0, 0x800000, 0xffff00, 0x12345678, 0xffffffff
PatternAddrs ==
    {ZERO32, ToU32(MAIN_ADDR), [hi |-> 255, lo |-> 65280], [hi |-> 4660, lo |-> 22136],
     [hi |-> 65535, lo |-> 65535]}

PatternOps == {PAGE_OP_PROGRAM_TDI, PAGE_OP_VERIFY_TDI, PAGE_OP_VERIFY_TDO, PAGE_OP_VERIFY_MASK}

\* the arguments of a call: a buffer of len bytes, or NULL with any len
PatternArgs ==
    {[buf |-> Ptr(img, 0), len |-> img.len, page_addr |-> a, op |-> o] :
        img \in UNION {Images(L) : L \in 0 .. PAGE_SIZE}, a \in PatternAddrs, o \in PatternOps}
    \cup {[buf |-> NULL, len |-> L, page_addr |-> a, op |-> o] :
        L \in {0, 1, PAGE_SIZE}, a \in PatternAddrs, o \in PatternOps}

InitPattern ==
    /\ image = NULL.img
    /\ chip_size = SIZE_16MB
    /\ NotEntered
    /\ pc = "call"
    /\ arg \in PatternArgs
    /\ pattern = BlankPattern
    /\ NoReverseCall

\* create_page_pattern(&pattern, arg.buf, arg.len, arg.page_addr, arg.op)
create_page_pattern_call ==
    /\ pc = "call"
    /\ LET r == create_page_pattern(arg.buf, arg.len, arg.page_addr, arg.op)
       IN  /\ pattern' = r.pattern
           /\ ret' = r.rc
    /\ pc' = "called"
    /\ UNCHANGED <<image, chip_size, base, mode, buf, len, addr, blen, all_ones, written, rc,
                   iter, out, status, arg, rev>>

NextPattern == create_page_pattern_call

SpecPattern == InitPattern /\ [][NextPattern]_vars

\* ---------------------------------------------- send_page_verify on its own

\* the arguments of a call: those of PatternArgs, op left aside
VerifyArgs == {a \in PatternArgs : a.op = PAGE_OP_VERIFY_TDI}

InitVerify ==
    /\ image = NULL.img
    /\ chip_size = SIZE_16MB
    /\ NotEntered
    /\ pc = "call"
    /\ arg \in VerifyArgs
    /\ pattern = BlankPattern
    /\ NoReverseCall

\* rc = send_page_verify(arg.buf, arg.len, arg.page_addr)
send_page_verify_call ==
    /\ pc = "call"
    /\ LET r == send_page_verify(arg.buf, arg.len, arg.page_addr)
       IN  /\ out' = out \o r.lines
           /\ ret' = r.rc
    /\ pc' = "called"
    /\ UNCHANGED <<image, chip_size, base, mode, buf, len, addr, blen, all_ones, written, rc,
                   iter, status, arg, pattern, rev>>

NextVerify == send_page_verify_call

SpecVerify == InitVerify /\ [][NextVerify]_vars

\* -------------------------------------------------- the bit reversals alone

\* the bytes
Reverse8Inputs == 0 .. 255

\* 16-bit halves: none, all, one bit, and the halves of 0x12345678 and 0x00ffff00
ReverseHalves == {0, U16 - 1, 4660, 22136, 255, 65280} \cup {2 ^ i : i \in 0 .. 15}

\* 32-bit values: every pair of these halves
Reverse32Inputs == {[hi |-> h, lo |-> l] : h, l \in ReverseHalves}

\* a value v is about to be reversed, over and again
InitReverse ==
    /\ image = NULL.img
    /\ chip_size = SIZE_16MB
    /\ NotEntered
    /\ pc = "reverse"
    /\ NoPatternCall
    /\ \/ \E x \in Reverse8Inputs : rev = [width |-> 8, v |-> x, res |-> x, n |-> 0]
       \/ \E x \in Reverse32Inputs : rev = [width |-> 32, v |-> x, res |-> x, n |-> 0]

\* res = reverse_bits_8(res)
reverse_bits_8_call ==
    /\ pc = "reverse"
    /\ rev.width = 8
    /\ rev.n < MaxApplications
    /\ rev' = [rev EXCEPT !.res = reverse_bits_8(@), !.n = @ + 1]
    /\ UNCHANGED <<image, chip_size, base, mode, buf, len, addr, blen, all_ones, written, rc,
                   iter, out, pc, ret, status, arg, pattern>>

\* res = reverse_bits_32(res)
reverse_bits_32_call ==
    /\ pc = "reverse"
    /\ rev.width = 32
    /\ rev.n < MaxApplications
    /\ rev' = [rev EXCEPT !.res = reverse_bits_32(@), !.n = @ + 1]
    /\ UNCHANGED <<image, chip_size, base, mode, buf, len, addr, blen, all_ones, written, rc,
                   iter, out, pc, ret, status, arg, pattern>>

NextReverse == reverse_bits_8_call \/ reverse_bits_32_call

SpecReverse == InitReverse /\ [][NextReverse]_vars

\* ---------------------------------------------------------- the properties

\* The pages of the image, as the properties speak of them: page k holds the
\* bytes 256k .. 256k + PageBytes(k) - 1 and lies at address base + 256k.

\* the number a uint32_t below 2^31 stands for
Val32(v) == v.hi * U16 + v.lo

PageAddress(k) == ToU32(Val32(base) + PAGE_SIZE * k)

PageBytes(k) ==
    IF image.len - PAGE_SIZE * k < PAGE_SIZE THEN image.len - PAGE_SIZE * k ELSE PAGE_SIZE

\* every byte of page k is 0xFF
PageAllOnes(k) ==
    \A o \in PAGE_SIZE * k .. PAGE_SIZE * k + PageBytes(k) - 1 : ByteAt(image, o) = 255

\* the program lines printed for address a
ProgramLines(a) == {i \in DOMAIN out : out[i].kind = "send_page_program" /\ out[i].addr = a}

\* the verify lines printed for address a
VerifyLines(a) == {i \in DOMAIN out : out[i].kind = "send_page_verify" /\ out[i].addr = a}

\* a whole program block for address a starts at out[i]
ProgramBlockAt(i, a) ==
    /\ i + 3 <= Len(out)
    /\ out[i] = write_enable
    /\ out[i + 1].kind = "send_page_program"
    /\ out[i + 1].line = "SDR 2080 TDI (%s);"
    /\ out[i + 1].addr = a
    /\ out[i + 2] = write_disable
    /\ out[i + 3] = wait(2)

\* a whole verify block for address a starts at out[i]
VerifyBlockAt(i, a) ==
    /\ i + 2 <= Len(out)
    /\ \A d \in 0 .. 2 : out[i + d].kind = "send_page_verify" /\ out[i + d].addr = a
    /\ out[i].line = "SDR 2080 TDI (%s)"
    /\ out[i + 1].line = "TDO (%s)"
    /\ out[i + 2].line = "MASK (%s);"

\* C1 (write-skip): for every page processed so far, a program block (write
\* enable, the SDR 2080 TDI program line, write disable, wait 2 ms) is in the
\* output for that page if and only if WRITE is set and not (ERASE is set and
\* every byte of the page is 0xFF); a page without a block has no program line
\* at all.
WriteSkip ==
    \A k \in 0 .. iter - 1 :
        LET a == PageAddress(k)
            wanted == HasFlag(mode, MODE_WRITE) /\ ~(HasFlag(mode, MODE_ERASE) /\ PageAllOnes(k))
        IN  /\ wanted => \E i \in DOMAIN out : ProgramBlockAt(i, a)
            /\ ~wanted => ProgramLines(a) = {}

\* mode ERASE|WRITE has run to its end over an image with a whole page of 0xFF,
\* which got no program line, and a page that was programmed
WriteSkipWitness ==
    /\ pc = "returned"
    /\ mode = 3
    /\ \E k \in 0 .. iter - 1 :
          PageBytes(k) = PAGE_SIZE /\ PageAllOnes(k) /\ ProgramLines(PageAddress(k)) = {}
    /\ \E k \in 0 .. iter - 1 : \E i \in DOMAIN out : ProgramBlockAt(i, PageAddress(k))

\* C2 (verify decision): for every page processed so far, a verify block (the
\* TDI, TDO and MASK lines) is in the output for that page if and only if
\* VERIFY is set or the page was programmed in this run, that is WRITE is set
\* and the program step was not skipped; a page without a block has no verify
\* line at all.
VerifyDecision ==
    \A k \in 0 .. iter - 1 :
        LET a == PageAddress(k)
            programmed == HasFlag(mode, MODE_WRITE)
                          /\ ~(HasFlag(mode, MODE_ERASE) /\ PageAllOnes(k))
            wanted == HasFlag(mode, MODE_VERIFY) \/ programmed
        IN  /\ programmed <=> ProgramLines(a) # {}
            /\ wanted => \E i \in DOMAIN out : VerifyBlockAt(i, a)
            /\ ~wanted => VerifyLines(a) = {}

\* a run without VERIFY has verified a page it programmed and has neither
\* programmed nor verified a page of 0xFF that it skipped
VerifyDecisionWitness ==
    /\ pc = "returned"
    /\ mode = 3
    /\ \E k \in 0 .. iter - 1 :
          /\ PageAllOnes(k)
          /\ ProgramLines(PageAddress(k)) = {}
          /\ VerifyLines(PageAddress(k)) = {}
    /\ \E k \in 0 .. iter - 1 :
          /\ ProgramLines(PageAddress(k)) # {}
          /\ \E i \in DOMAIN out : VerifyBlockAt(i, PageAddress(k))

\* the TRST lines of the output
TrstLines == {i \in DOMAIN out : out[i].kind = "trst"}

PagesOfImage == (image.len + PAGE_SIZE - 1) \div PAGE_SIZE

\* C4 (loop termination and partition): for a non-empty image of length L the
\* page loop makes exactly ceil(L/256) iterations and never more; the pages
\* are consecutive and do not overlap: the k-th iteration (k from 0) takes the
\* bytes from offset 256k at address base + 256k, each page but the last is
\* 256 bytes long and the last is L mod 256 bytes long (256 when 256 divides
\* L), so that the pages cover the image exactly.
LoopPartition ==
    image.len > 0 =>
        /\ pc = "entry" => iter = 0 /\ buf = 0 /\ len = image.len
        /\ pc \in {"loop", "epilogue", "returned"} =>
              /\ buf + len = image.len
              /\ addr = ToU32(Val32(base) + buf)
              /\ iter >= 1 =>
                    /\ buf - blen = PAGE_SIZE * (iter - 1)
                    /\ Add32(PageAddress(iter - 1), blen) = addr
                    /\ blen = PageBytes(iter - 1)
        /\ pc = "loop" =>
              /\ iter < PagesOfImage
              /\ len > 0
              /\ buf = PAGE_SIZE * iter
              /\ iter >= 1 => blen = PAGE_SIZE
        /\ pc \in {"epilogue", "returned"} =>
              /\ iter = PagesOfImage
              /\ len = 0
              /\ blen = (IF image.len % PAGE_SIZE = 0 THEN PAGE_SIZE ELSE image.len % PAGE_SIZE)

\* the loop has ended over an image of a whole page and one byte: two
\* iterations, the last of one byte
LoopPartitionWitness ==
    /\ pc = "returned"
    /\ image.len = PAGE_SIZE + 1
    /\ iter = 2
    /\ blen = 1
    /\ Val32(addr) = Val32(base) + PAGE_SIZE + 1

\* the commands before the page loop, by the function that prints each
HeadKinds ==
    <<"trst", "set_frequency", "write_enable", "clear_software_protect", "write_disable",
      "wait", "check_no_software_protect">>

EraseKinds == <<"write_enable", "bulk_erase", "write_disable", "wait", "check_status">>

\* the commands of a page
PageKinds == {"write_enable", "send_page_program", "write_disable", "wait", "send_page_verify"}

\* C5 (phase order): the output starts with reset, frequency, the unlock
\* (write enable, clear software protect, write disable, wait 100 ms) and the
\* check of no software protect, followed by the erase block (write enable,
\* bulk erase, write disable, wait erase_time(chip_size), check status) if and
\* only if ERASE is set; every page program or verify command comes after all
\* of these, what follows them is page commands and the closing reset only,
\* and bulk erase is printed at most once and never after a page command.
PhaseOrder ==
    LET expected == HeadKinds \o (IF HasFlag(mode, MODE_ERASE) THEN EraseKinds ELSE <<>>)
        n == Len(expected)
    IN  /\ pc = "entry" => out = <<>>
        /\ pc # "entry" =>
              /\ Len(out) >= n
              /\ \A i \in 1 .. n : out[i].kind = expected[i]
              /\ out[6] = wait(100)
              /\ HasFlag(mode, MODE_ERASE) => out[11] = wait(erase_time(chip_size).ms)
              /\ \A i \in n + 1 .. Len(out) : out[i].kind \in PageKinds \cup {"trst"}
              /\ \A i \in n + 1 .. Len(out) : out[i].kind = "wait" => out[i] = wait(2)
              /\ Cardinality({i \in DOMAIN out : out[i].kind = "bulk_erase"})
                   = (IF HasFlag(mode, MODE_ERASE) THEN 1 ELSE 0)

\* an erasing run has returned after programming and verifying a page: the
\* bulk erase is the ninth command and the page commands follow the twelfth
PhaseOrderWitness ==
    /\ pc = "returned"
    /\ HasFlag(mode, MODE_ERASE)
    /\ out[9] = bulk_erase
    /\ \E i \in 13 .. Len(out) : out[i].kind = "send_page_program"
    /\ \E i \in 13 .. Len(out) : out[i].kind = "send_page_verify"

\* C6 (return value): generate_svf returns 0 on every run that completes the
\* page loop and prints the closing reset line, also when no page was
\* programmed or verified.
ReturnsSuccess == pc = "returned" /\ out[Len(out)] = trst(1) => ret = 0

\* the commands after the first that trst printed
ClosingResets == {i \in DOMAIN out : i > 1 /\ out[i].kind = "trst"}

\* C7 (fatal abort) as claimed: with an unsupported chip size, whatever the
\* mode, the closing reset line is never written.
FatalAbortAsClaimed == chip_size = SIZE_UNSUPPORTED => ClosingResets = {}

\* C7 (fatal abort) as the code has it: with an unsupported chip size and
\* ERASE set, the closing reset line is never written: the run ends in the
\* erase block, after its write disable, with the message of erase_time and
\* exit status 1, and no wait of the erase, check of the status or page
\* command is printed.
FatalAbort ==
    chip_size = SIZE_UNSUPPORTED /\ HasFlag(mode, MODE_ERASE) =>
        /\ ClosingResets = {}
        /\ pc \in {"entry", "exited"}
        /\ pc = "exited" =>
              /\ status = 1
              /\ Len(out) = 11
              /\ out[9] = bulk_erase
              /\ out[10] = write_disable
              /\ out[11].kind = "erase_time"
              /\ out[11].line = "Unsupported chip size"
        /\ \A i \in DOMAIN out : out[i].kind \notin {"check_status", "send_page_program",
                                                     "send_page_verify"}

\* an erasing run with an unsupported chip size has exited
FatalAbortWitness ==
    /\ chip_size = SIZE_UNSUPPORTED
    /\ HasFlag(mode, MODE_ERASE)
    /\ HasFlag(mode, MODE_WRITE)
    /\ image.len > 0
    /\ pc = "exited"
    /\ status = 1

\* a multiple of 256 below 16 MiB
AddressInRange(a) == a.lo % PAGE_SIZE = 0 /\ a.hi < 256

\* the last of the 260 bytes of a printed pattern: the byte of addr_and_op
\* that holds the opcode
OpcodeByte(line) == line.data[PAGE_SIZE + 4]

\* C9 (address/opcode non-overlap): in a run of main, every page command is
\* printed for a page address that is a multiple of 256 below 16 MiB, and the
\* opcode byte of its pattern is not touched by the reversed address: it is
\* 0x40 in every program pattern and 0xC0 in every verify TDI pattern.
OpcodeByteIntact ==
    \A i \in DOMAIN out :
        /\ out[i].kind = "send_page_program" =>
              AddressInRange(out[i].addr) /\ OpcodeByte(out[i]) = PAGE_OP_PROGRAM_TDI
        /\ out[i].kind = "send_page_verify" /\ out[i].line = "SDR 2080 TDI (%s)" =>
              AddressInRange(out[i].addr) /\ OpcodeByte(out[i]) = PAGE_OP_VERIFY_TDI

\* C10 (page data encoding): for every input of length L, 0 <= L <= 256,
\* create_page_pattern writes exactly the 256 data bytes 0 .. 255: position
\* 255 - i holds reverse_bits_8(input[i]) for every i < L and every position
\* 0 .. 255 - L holds 0xFF; a NULL buffer counts as length 0, whatever len is.
PageDataEncoding ==
    pc = "called" =>
        LET n == IF arg.buf.null THEN 0 ELSE arg.len
        IN  /\ DOMAIN pattern.data = 0 .. PAGE_SIZE - 1
            /\ \A i \in 0 .. n - 1 : pattern.data[255 - i] = reverse_bits_8(Deref(arg.buf, i))
            /\ \A j \in 0 .. 255 - n : pattern.data[j] = 255

\* a call on the 200 bytes 0x12, 0x01, ..., 0x01 has returned: the first byte is
\* at position 255 as 0x48, the last at position 56 as 0x80, the padding below
PageDataEncodingWitness ==
    /\ pc = "called"
    /\ ~arg.buf.null
    /\ arg.len = 200
    /\ Deref(arg.buf, 0) = 18
    /\ Deref(arg.buf, 199) = 1
    /\ pattern.data[255] = 72
    /\ pattern.data[56] = 128
    /\ pattern.data[55] = 255
    /\ pattern.data[0] = 255

\* the page lines of the output: the lines that hold a pattern
PageLineIndexes == {i \in DOMAIN out : out[i].kind \in {"send_page_program", "send_page_verify"}}

\* C11 (page and line ordering): the page lines of the output are those of
\* pages processed so far and stand in ascending order of page address; a page
\* address has at most one program line, which stands in a whole program block
\* (write enable, program line, write disable, wait 2 ms), and either no verify
\* line or the three lines of one verify block, next to each other; every line
\* of a page at a lower address stands before the block and every line of the
\* same or a higher address after it, so that the program block of a page, its
\* wait included, precedes the verify block of that page, and the commands of a
\* page precede the commands, write enable included, of the next.
PageOrder ==
    /\ \A i \in PageLineIndexes : \E k \in 0 .. iter - 1 : out[i].addr = PageAddress(k)
    /\ \A i, j \in PageLineIndexes : i < j => Val32(out[i].addr) <= Val32(out[j].addr)
    /\ \A i \in PageLineIndexes :
          LET a == out[i].addr
          IN  IF out[i].kind = "send_page_program"
              THEN /\ ProgramLines(a) = {i}
                   /\ i > 1
                   /\ ProgramBlockAt(i - 1, a)
                   /\ \A j \in PageLineIndexes \ {i} :
                         IF Val32(out[j].addr) < Val32(a)
                         THEN j < i - 1
                         ELSE /\ j > i + 2
                              /\ out[j].kind = "send_page_program" => j - 1 > i + 2
                              /\ out[j].addr = a => out[j].kind = "send_page_verify"
              ELSE /\ Cardinality(VerifyLines(a)) = 3
                   /\ \E s \in VerifyLines(a) :
                         /\ VerifyLines(a) = s .. s + 2
                         /\ VerifyBlockAt(s, a)
                         /\ \A j \in PageLineIndexes :
                               Val32(out[j].addr) > Val32(a) =>
                                   /\ j > s + 2
                                   /\ out[j].kind = "send_page_program" => j - 1 > s + 2

\* a run has returned after programming and verifying two pages: the program
\* block of the first page, its verify block, then the program block of the
\* second page and its verify block
PageOrderWitness ==
    /\ pc = "returned"
    /\ iter >= 2
    /\ \E i \in DOMAIN out :
          /\ ProgramBlockAt(i, PageAddress(0))
          /\ VerifyBlockAt(i + 4, PageAddress(0))
          /\ ProgramBlockAt(i + 7, PageAddress(1))
          /\ VerifyBlockAt(i + 11, PageAddress(1))

\* the commands that change the state of the flash
MutatingKinds == {"clear_software_protect", "bulk_erase", "send_page_program"}

\* the commands that read the flash
ReadingKinds == {"send_page_verify", "check_no_software_protect", "check_status"}

\* C12 (write-enable bracketing): in every output so far, a write enable is
\* followed by exactly one flash-mutating command (clear software protect, bulk
\* erase or a page program line) and then by a write disable, and a write
\* disable closes such a bracket, so that enable and disable alternate,
\* starting with an enable; every mutating command stands between an enable
\* and a disable; the bracket of a page program line is followed at once by a
\* wait of 2 ms; verify lines and status checks stand outside the brackets, and
\* the last line of a verify block is not followed by a wait.
WriteBracketing ==
    \A i \in DOMAIN out :
        /\ out[i].kind = "write_enable" =>
              /\ i + 2 <= Len(out)
              /\ out[i + 1].kind \in MutatingKinds
              /\ out[i + 2].kind = "write_disable"
        /\ out[i].kind = "write_disable" =>
              /\ i > 2
              /\ out[i - 2].kind = "write_enable"
        /\ out[i].kind \in MutatingKinds =>
              /\ i > 1
              /\ i + 1 <= Len(out)
              /\ out[i - 1].kind = "write_enable"
              /\ out[i + 1].kind = "write_disable"
        /\ out[i].kind = "send_page_program" =>
              /\ i + 2 <= Len(out)
              /\ out[i + 2] = wait(2)
        /\ out[i].kind \in ReadingKinds =>
              /\ i > 1
              /\ out[i - 1].kind # "write_enable"
              /\ i < Len(out) => out[i + 1].kind # "write_disable"
        /\ out[i].kind = "send_page_verify" /\ out[i].line = "MASK (%s);" /\ i < Len(out) =>
              out[i + 1].kind # "wait"

\* an erasing, writing run has returned: the bulk erase in its bracket, then a
\* page program bracket with its wait, the verify block outside any bracket,
\* and after the verify block the write enable of the next page
WriteBracketingWitness ==
    /\ pc = "returned"
    /\ out[8] = write_enable /\ out[9] = bulk_erase /\ out[10] = write_disable
    /\ \E i \in DOMAIN out :
          /\ ProgramBlockAt(i, PageAddress(0))
          /\ VerifyBlockAt(i + 4, PageAddress(0))
          /\ i + 7 <= Len(out)
          /\ out[i + 7] = write_enable

\* the 256 data bytes of a printed pattern, by their index in page_pattern.data
DataOf(line) == [j \in 0 .. PAGE_SIZE - 1 |-> line.data[j + 1]]

\* the four bytes of addr_and_op of a printed pattern, in the order printed
FieldOf(line) == <<line.data[PAGE_SIZE + 1], line.data[PAGE_SIZE + 2], line.data[PAGE_SIZE + 3],
                   line.data[PAGE_SIZE + 4]>>

\* bit i, 0 <= i < 32, of the number four bytes spell most significant first
BitOfBE(b, i) == (b[4 - i \div 8] \div (2 ^ (i % 8))) % 2

\* bit i, 0 <= i < 32, of byte v
BitOf(v, i) == IF i < 8 THEN (v \div (2 ^ i)) % 2 ELSE 0

\* C13 (verify block composition): for every page data and page address,
\* send_page_verify prints three patterns of 260 bytes in the order TDI, TDO,
\* MASK.  The TDI pattern has all 256 data bytes 0xFF and a field addr_and_op
\* that, read most significant byte first, is the bit-reversed page address
\* OR 0xC0.  The TDO pattern has the expected content of the page (byte i of
\* the data, bit-reversed, at position 255 - i, the positions below padded
\* with 0xFF) and a zero field.  The MASK pattern has all 256 data bytes 0xFF
\* and a zero field, whatever the page holds.
VerifyComposition ==
    pc = "called" =>
        LET n == IF arg.buf.null THEN 0 ELSE arg.len
        IN  /\ ret = 0
            /\ Len(out) = 3
            /\ \A d \in 1 .. 3 :
                  /\ out[d].kind = "send_page_verify"
                  /\ out[d].addr = arg.page_addr
                  /\ Len(out[d].data) = PAGE_SIZE + 4
            /\ out[1].line = "SDR 2080 TDI (%s)"
            /\ out[2].line = "TDO (%s)"
            /\ out[3].line = "MASK (%s);"
            /\ \A j \in 0 .. PAGE_SIZE - 1 : DataOf(out[1])[j] = 255 /\ DataOf(out[3])[j] = 255
            /\ \A i \in 0 .. 31 :
                  BitOfBE(FieldOf(out[1]), i)
                    = (IF Bit32(arg.page_addr, 31 - i) = 1 \/ BitOf(PAGE_OP_VERIFY_TDI, i) = 1
                       THEN 1 ELSE 0)
            /\ \A i \in 0 .. n - 1 : \A b \in 0 .. 7 :
                  BitOf(DataOf(out[2])[255 - i], b) = BitOf(Deref(arg.buf, i), 7 - b)
            /\ \A j \in 0 .. 255 - n : DataOf(out[2])[j] = 255
            /\ FieldOf(out[2]) = <<0, 0, 0, 0>>
            /\ FieldOf(out[3]) = <<0, 0, 0, 0>>

\* a call on the 200 bytes 0x12, 0x01, ..., 0x01 of the page at 0x800000 has
\* returned: the TDI field is 00 00 01 c0 and the TDO data hold 0x48 at
\* position 255, 0x80 at position 56 and the padding below
VerifyCompositionWitness ==
    /\ pc = "called"
    /\ Len(out) = 3
    /\ ~arg.buf.null
    /\ arg.len = 200
    /\ arg.page_addr = ToU32(MAIN_ADDR)
    /\ Deref(arg.buf, 0) = 18
    /\ Deref(arg.buf, 199) = 1
    /\ FieldOf(out[1]) = <<0, 0, 1, 192>>
    /\ DataOf(out[2])[255] = 72
    /\ DataOf(out[2])[56] = 128
    /\ DataOf(out[2])[55] = 255
    /\ DataOf(out[3])[255] = 255

\* C14 (address field zeroing): after create_page_pattern, for op VERIFY_TDO
\* or VERIFY_MASK the whole field addr_and_op is zero, whatever the page
\* address; for PROGRAM_TDI and VERIFY_TDI the four bytes of the field, read
\* in storage order as a number most significant byte first, are the page
\* address with its 32 bits reversed (bit i of the field is bit 31 - i of the
\* address) OR the opcode.
AddressFieldZeroing ==
    pc = "called" =>
        LET f == MemBytes(pattern.addr_and_op)
        IN  IF arg.op = PAGE_OP_VERIFY_TDO \/ arg.op = PAGE_OP_VERIFY_MASK
            THEN pattern.addr_and_op = ZERO32 /\ f = <<0, 0, 0, 0>>
            ELSE \A i \in 0 .. 31 :
                    BitOfBE(f, i)
                      = (IF Bit32(arg.page_addr, 31 - i) = 1 \/ BitOf(arg.op, i) = 1
                         THEN 1 ELSE 0)

\* a call for the VERIFY_TDO (or VERIFY_MASK) pattern of the page address
\* 0x12345678 has returned with a zero field
AddressFieldZeroingWitness ==
    /\ pc = "called"
    /\ arg.op = PAGE_OP_VERIFY_TDO
    /\ arg.page_addr = [hi |-> 4660, lo |-> 22136]
    /\ pattern.addr_and_op = ZERO32
    /\ DOMAIN pattern.data = 0 .. PAGE_SIZE - 1

\* C15 (bit reversal is an involution): for every byte v, reverse_bits_8(v) is
\* a byte with bit i of v at position 7 - i, and reverse_bits_8 applied to it
\* gives v again; for every 32-bit value v, reverse_bits_32(v) is a 32-bit
\* value with bit i of v at position 31 - i, and reverse_bits_32 applied to it
\* gives v again (so an even number of applications gives v, an odd number
\* its reversal).
BitReversalInvolution ==
    pc = "reverse" =>
        /\ rev.width = 8 =>
              /\ rev.res \in 0 .. 255
              /\ IF rev.n % 2 = 0
                 THEN rev.res = rev.v
                 ELSE \A i \in 0 .. 7 : BitOf(rev.res, 7 - i) = BitOf(rev.v, i)
        /\ rev.width = 32 =>
              /\ rev.res.hi \in 0 .. U16 - 1
              /\ rev.res.lo \in 0 .. U16 - 1
              /\ IF rev.n % 2 = 0
                 THEN rev.res = rev.v
                 ELSE \A i \in 0 .. 31 : Bit32(rev.res, 31 - i) = Bit32(rev.v, i)

\* 0x12345678 has been reversed twice and is itself again; its reversal, the
\* value in between, is 0x1e6a2c48
BitReversalInvolutionWitness ==
    /\ pc = "reverse"
    /\ rev.width = 32
    /\ rev.n = 2
    /\ rev.v = [hi |-> 4660, lo |-> 22136]
    /\ rev.res = rev.v
    /\ reverse_bits_32(rev.v) = [hi |-> 7786, lo |-> 11336]
    /\ reverse_bits_8(18) = 72

\* C16 (empty input): when generate_svf is called with a buffer of length 0,
\* in every mode no program line and no verify line is printed, and the
\* output of the completed run is the seven commands of the preamble, the five
\* of the erase block if ERASE is set, and the closing reset line, nothing
\* else.
EmptyInputSilent ==
    image.len = 0 /\ pc \in {"loop", "epilogue", "returned"} =>
        /\ PageLineIndexes = {}
        /\ pc = "returned" =>
              /\ Len(out) = Len(HeadKinds)
                              + (IF HasFlag(mode, MODE_ERASE) THEN Len(EraseKinds) ELSE 0) + 1
              /\ out[Len(out)] = trst(1)

=============================================================================
